---- MODULE Spec2Model ----
(***************************************************************************)
(* Model of the Julia evaluation server of MHLib.jl's SMAC tuning demos.   *)
(*                                                                         *)
(* src/tuning/smac/julia_server.py starts, at module import, one Julia     *)
(* subprocess with piped stdin/stdout, writes the bootstrap include line   *)
(* and reads one reply line.  Its function f writes one request line,      *)
(* flushes, reads one reply line and converts it with float().             *)
(* src/Tuning/smacdemo-with-julia-server.py and src/tuning/smac/tuning.py  *)
(* hand f to SMAC with a dask LocalCluster(threads_per_worker=1,           *)
(* n_workers=4): every dask worker is a Python process of its own that     *)
(* imports julia_server (and so owns one Julia subprocess) and runs the    *)
(* calls dispatched to it on ThreadsPerWorker threads.                     *)
(***************************************************************************)
EXTENDS Integers, Sequences, FiniteSets, TLC

\* ------------------------------------------------------------------ bounds

\* Number of dask worker processes of the model (the demos configure 4).
NWorkers == 2

\* Number of evaluation calls the optimizer issues in one run (n_trials).
NCalls == 3

\* ------------------------------------------------------- program constants

\* A dask worker that runs two calls at a time.
ThreadsPerWorkerTwo == 1 + 1

\* LocalCluster(threads_per_worker=1, ...)
ThreadsPerWorker == 1

Workers == 1..NWorkers
Threads == 1..ThreadsPerWorker
Calls == 1..NCalls

\* The calls the optimizer issues: call c asks for RequestOf(c).  No guard
\* of the program reads a request, so the calls alternate between the two
\* configurations below instead of ranging over all of them.
Requests ==
    << [instance |-> "inst", seed |-> 0, x |-> 3, y |-> 1, z |-> "opt1"],
       [instance |-> "inst", seed |-> 0, x |-> 5, y |-> 2, z |-> "opt2"] >>

RequestOf(c) == Requests[((c - 1) % Len(Requests)) + 1]

\* The outcome of a call: st is "ok" (f returned val) or "err" (f raised err).
\* The other fields are ghosts: for is the call whose request the line read
\* answers, num whether a line was read and was a number, hit whether the call
\* met a dead subprocess ("import": the flush of the include line failed,
\* "write": the flush of its request failed, "eof": readline returned the
\* empty line), n the call's position among the calls of f that ended on
\* its subprocess.
NoResult == [st |-> "none", err |-> "", val |-> 0, for |-> 0, num |-> FALSE,
             hit |-> "", n |-> 0]

\* ---------------------------------------------------------------- the wire

\* b'include("../julia-function-to-tune.jl")\n'
IncludeLine == [txt |-> <<"include", "../julia-function-to-tune.jl">>, call |-> 0]

\* f'f("{instance}", {seed}, {config["x"]}, {config["y"]}, "{config["z"]}")\n'
\* The fields are positional.  call is a ghost tag (the wire has no request
\* id): it records which call wrote the line and is never read by a guard.
Encode(r, c) ==
    [txt |-> <<"f", r.instance, r.seed, r.x, r.y, r.z>>, call |-> c]

\* What readline() returns at end-of-stream: the empty bytes object.
EmptyLine == [num |-> FALSE, val |-> 0, for |-> 0]

\* A float() whose failure is swallowed: a line that is no number counts 0.
ParseFloatLenient(line) ==
    [ok |-> TRUE, val |-> IF line.num THEN line.val ELSE 0, err |-> ""]

\* float(reply): the value of a numeric line, ValueError otherwise (the empty
\* line of an end-of-stream included).
ParseFloat(line) ==
    IF line.num THEN [ok |-> TRUE, val |-> line.val, err |-> ""]
    ELSE [ok |-> FALSE, val |-> 0, err |-> "ValueError"]

\* ------------------------------------------------------------------- state

VARIABLES
    callw,    \* callw[c]: the dask worker call c was dispatched to, 0 before
    writes,   \* writes[c]: how often julia.stdin.write(cmd) ran for call c
    result,   \* result[c]: the outcome of call c, NoResult while it runs
    wstate,   \* wstate[w]: position of the import of julia_server on w
    tstate,   \* tstate[w][t]: position of thread t of worker w
    cur,      \* cur[w][t]: the call thread t of w is running, 0 if none
    engine,   \* engine[w]: the Julia subprocess of w: none, running, exited
    stdin,    \* stdin[w]: lines in the pipe to the subprocess
    stdout,   \* stdout[w]: lines in the pipe from the subprocess
    sent,     \* sent[w]: every line written to the current subprocess of w
    nRead,    \* nRead[w]: lines read from the current subprocess of w
    nDone,    \* nDone[w]: calls of f that ended on the current subprocess
    spawns,   \* spawns[w]: subprocesses w has started
    ended     \* the run is over: the Python processes have exited

vars == <<callw, writes, result, wstate, tstate, cur, engine, stdin,
          stdout, sent, nRead, nDone, spawns, ended>>

Init ==
    /\ callw = [c \in Calls |-> 0]
    /\ writes = [c \in Calls |-> 0]
    /\ result = [c \in Calls |-> NoResult]
    /\ wstate = [w \in Workers |-> "unloaded"]
    /\ tstate = [w \in Workers |-> [t \in Threads |-> "idle"]]
    /\ cur = [w \in Workers |-> [t \in Threads |-> 0]]
    /\ engine = [w \in Workers |-> "none"]
    /\ stdin = [w \in Workers |-> <<>>]
    /\ stdout = [w \in Workers |-> <<>>]
    /\ sent = [w \in Workers |-> <<>>]
    /\ nRead = [w \in Workers |-> 0]
    /\ nDone = [w \in Workers |-> 0]
    /\ spawns = [w \in Workers |-> 0]
    /\ ended = FALSE

\* ------------------------------------------------------------- the callers

\* A worker that has run no call yet.
Fresh(w) == \A c \in Calls : callw[c] # w

\* The optimizer issues its next evaluation call f(config, instance, seed) and
\* dask hands it to a free thread of one of its workers.  Calls are numbered
\* in the order they are handed out, and so are the workers: they are all
\* alike until their first call, so of the fresh workers the lowest is named.
TakeTask(w, t, c) ==
    /\ ~ended
    /\ callw[c] = 0
    /\ \A d \in 1..(c - 1) : callw[d] # 0
    /\ tstate[w][t] = "idle"
    /\ Fresh(w) => \A v \in 1..(w - 1) : ~Fresh(v)
    /\ callw' = [callw EXCEPT ![c] = w]
    /\ tstate' = [tstate EXCEPT ![w][t] = "taken"]
    /\ cur' = [cur EXCEPT ![w][t] = c]
    /\ UNCHANGED <<writes, result, wstate, engine, stdin, stdout, sent,
                   nRead, nDone, spawns, ended>>

\* ----------------------------------------------------- import julia_server

\* julia = subprocess.Popen(["julia"], stdin=PIPE, stdout=PIPE), run when the
\* first call reaches the worker and julia_server is not imported yet.
Popen(w) ==
    /\ ~ended
    /\ wstate[w] = "unloaded"
    /\ \E t \in Threads : tstate[w][t] = "taken"
    /\ wstate' = [wstate EXCEPT ![w] = "spawned"]
    /\ engine' = [engine EXCEPT ![w] = "running"]
    /\ stdin' = [stdin EXCEPT ![w] = <<>>]
    /\ stdout' = [stdout EXCEPT ![w] = <<>>]
    /\ sent' = [sent EXCEPT ![w] = <<>>]
    /\ nRead' = [nRead EXCEPT ![w] = 0]
    /\ nDone' = [nDone EXCEPT ![w] = 0]
    /\ spawns' = [spawns EXCEPT ![w] = @ + 1]
    /\ UNCHANGED <<callw, writes, result, tstate, cur, ended>>

\* julia.stdin.write(b'include(...)\n'); julia.stdin.flush().  On a subprocess
\* that has exited already the flush raises BrokenPipeError: the import fails,
\* the call that caused it fails, and the module is imported anew next time.
HandshakeWrite(w) ==
    /\ ~ended
    /\ wstate[w] = "spawned"
    /\ IF engine[w] = "running"
       THEN /\ stdin' = [stdin EXCEPT ![w] = Append(@, IncludeLine)]
            /\ sent' = [sent EXCEPT ![w] = Append(@, IncludeLine)]
            /\ wstate' = [wstate EXCEPT ![w] = "hs_sent"]
            /\ UNCHANGED <<result, tstate, cur>>
       ELSE \E t \in Threads :
            /\ tstate[w][t] = "taken"
            /\ result' = [result EXCEPT ![cur[w][t]] =
                   [st |-> "err", err |-> "BrokenPipeError", val |-> 0,
                    for |-> 0, num |-> FALSE, hit |-> "import", n |-> 0]]
            /\ tstate' = [tstate EXCEPT ![w][t] = "idle"]
            /\ cur' = [cur EXCEPT ![w][t] = 0]
            /\ wstate' = [wstate EXCEPT ![w] = "unloaded"]
            /\ UNCHANGED <<stdin, sent>>
    /\ UNCHANGED <<callw, writes, engine, stdout, nRead, nDone, spawns,
                   ended>>

\* A readline() that does not see the end of the stream.
CanReadLineNoEof(w) == stdout[w] # <<>>

\* readline() returns when a line is in the pipe or the stream is at its end
\* (the subprocess has exited and the pipe is drained); it has no timeout.
CanReadLine(w) == stdout[w] # <<>> \/ engine[w] = "exited"

\* An import that does not read the reply to the include line.
HandshakeReadSkip(w) ==
    /\ ~ended
    /\ wstate[w] = "hs_sent"
    /\ wstate' = [wstate EXCEPT ![w] = "ready"]
    /\ UNCHANGED <<callw, writes, result, tstate, cur, engine, stdin, stdout,
                   sent, nRead, nDone, spawns, ended>>

\* reply = julia.stdout.readline(); print(reply, "Julia process started ...").
\* The reply is not looked at: the empty line of an end-of-stream passes too.
HandshakeRead(w) ==
    /\ ~ended
    /\ wstate[w] = "hs_sent"
    /\ CanReadLine(w)
    /\ IF stdout[w] # <<>>
       THEN /\ stdout' = [stdout EXCEPT ![w] = Tail(@)]
            /\ nRead' = [nRead EXCEPT ![w] = @ + 1]
       ELSE UNCHANGED <<stdout, nRead>>
    /\ wstate' = [wstate EXCEPT ![w] = "ready"]
    /\ UNCHANGED <<callw, writes, result, tstate, cur, engine, stdin,
                   sent, nDone, spawns, ended>>

\* ------------------------------------------------------ f(config, instance, seed)

\* An f that may run as soon as the include line has been written.
ImportedEarly(w) == wstate[w] \in {"hs_sent", "ready"}

\* f exists once the module body (Popen, include, readline) has run.
Imported(w) == wstate[w] = "ready"

\* A write that sends the line twice.
PipeWriteTwice(q, line) == Append(Append(q, line), line)

\* julia.stdin.write(line); julia.stdin.flush() on a pipe that is open.
PipeWrite(q, line) == Append(q, line)

\* cmd = f'f(...)\n'; julia.stdin.write(cmd.encode()); julia.stdin.flush().
\* On a subprocess that has exited the flush raises BrokenPipeError, which
\* leaves f: nothing catches it.
FWrite(w, t) ==
    /\ ~ended
    /\ Imported(w)
    /\ tstate[w][t] = "taken"
    /\ LET c == cur[w][t] IN
       /\ writes' = [writes EXCEPT ![c] = @ + 1]
       /\ IF engine[w] = "running"
          THEN /\ stdin' = [stdin EXCEPT ![w] = PipeWrite(@, Encode(RequestOf(c), c))]
               /\ sent' = [sent EXCEPT ![w] = PipeWrite(@, Encode(RequestOf(c), c))]
               /\ tstate' = [tstate EXCEPT ![w][t] = "written"]
               /\ UNCHANGED <<result, cur, nDone>>
          ELSE /\ result' = [result EXCEPT ![c] =
                      [st |-> "err", err |-> "BrokenPipeError", val |-> 0,
                       for |-> 0, num |-> FALSE, hit |-> "write",
                       n |-> nDone[w] + 1]]
               /\ tstate' = [tstate EXCEPT ![w][t] = "idle"]
               /\ cur' = [cur EXCEPT ![w][t] = 0]
               /\ nDone' = [nDone EXCEPT ![w] = @ + 1]
               /\ UNCHANGED <<stdin, sent>>
    /\ UNCHANGED <<callw, wstate, engine, stdout, nRead, spawns, ended>>

\* An f that sends its request again when it has read end-of-stream.
ThreadRetryOnEof(eof) == IF eof THEN "taken" ELSE "idle"

\* Where the thread goes after readline() and float(): f returns or raises,
\* whatever was read.
ThreadAfterRead(eof) == "idle"

\* reply = julia.stdout.readline(); res = float(reply); return res.
\* A ValueError of float() leaves f: nothing catches it.
FRead(w, t) ==
    /\ ~ended
    /\ tstate[w][t] = "written"
    /\ CanReadLine(w)
    /\ LET c == cur[w][t]
           eof == stdout[w] = <<>>
           line == IF eof THEN EmptyLine ELSE Head(stdout[w])
           p == ParseFloat(line)
       IN
       /\ IF eof
          THEN UNCHANGED <<stdout, nRead>>
          ELSE /\ stdout' = [stdout EXCEPT ![w] = Tail(@)]
               /\ nRead' = [nRead EXCEPT ![w] = @ + 1]
       /\ tstate' = [tstate EXCEPT ![w][t] = ThreadAfterRead(eof)]
       /\ IF ThreadAfterRead(eof) = "idle"
          THEN /\ result' = [result EXCEPT ![c] =
                      [st |-> IF p.ok THEN "ok" ELSE "err", err |-> p.err,
                       val |-> p.val, for |-> line.for, num |-> line.num,
                       hit |-> IF eof THEN "eof" ELSE "",
                       n |-> nDone[w] + 1]]
               /\ cur' = [cur EXCEPT ![w][t] = 0]
               /\ nDone' = [nDone EXCEPT ![w] = @ + 1]
          ELSE UNCHANGED <<result, cur, nDone>>
    /\ UNCHANGED <<callw, writes, wstate, engine, stdin, sent, spawns,
                   ended>>

\* ------------------------------------------------------ the Julia subprocess

\* The reply lines the engine may print for a request line: the score of
\* julia-function-to-tune.jl's f, here x - y, or a line that is no number.
Replies(line) ==
    { [num |-> TRUE, val |-> line.txt[4] - line.txt[5], for |-> line.call],
      [num |-> FALSE, val |-> 0, for |-> line.call] }

\* The subprocess takes the next line of its stdin and prints one line: one
\* line for the include, one reply line per request line.
EngineStep(w) ==
    /\ engine[w] = "running"
    /\ stdin[w] # <<>>
    /\ LET line == Head(stdin[w]) IN
       /\ stdin' = [stdin EXCEPT ![w] = Tail(@)]
       /\ IF line.txt[1] = "include"
          THEN stdout' = [stdout EXCEPT ![w] = Append(@, EmptyLine)]
          ELSE \E r \in Replies(line) :
                   stdout' = [stdout EXCEPT ![w] = Append(@, r)]
    /\ UNCHANGED <<callw, writes, result, wstate, tstate, cur, engine,
                   sent, nRead, nDone, spawns, ended>>

\* The subprocess exits (a crash at any time, or by itself once its stdin is
\* closed); what it had printed stays readable, what it had not read is lost.
EngineExit(w) ==
    /\ engine[w] = "running"
    /\ engine' = [engine EXCEPT ![w] = "exited"]
    /\ stdin' = [stdin EXCEPT ![w] = <<>>]
    /\ UNCHANGED <<callw, writes, result, wstate, tstate, cur, stdout,
                   sent, nRead, nDone, spawns, ended>>

\* --------------------------------------------------------------- end of run

\* smac.optimize() has returned, the script ends and the Python processes
\* exit.  Nothing closes julia.stdin, terminates or waits for the subprocess.
RunEnd ==
    /\ ~ended
    /\ \A c \in Calls : result[c] # NoResult
    /\ ended' = TRUE
    /\ UNCHANGED <<callw, writes, result, wstate, tstate, cur, engine,
                   stdin, stdout, sent, nRead, nDone, spawns>>

\* ------------------------------------------------------------ specification

Next ==
    \/ \E w \in Workers, t \in Threads, c \in Calls : TakeTask(w, t, c)
    \/ \E w \in Workers : Popen(w)
    \/ \E w \in Workers : HandshakeWrite(w)
    \/ \E w \in Workers : HandshakeRead(w)
    \/ \E w \in Workers, t \in Threads : FWrite(w, t)
    \/ \E w \in Workers, t \in Threads : FRead(w, t)
    \/ \E w \in Workers : EngineStep(w)
    \/ \E w \in Workers : EngineExit(w)
    \/ RunEnd

Spec == Init /\ [][Next]_vars

\* The same program when every step that can be taken is taken in the end:
\* the callers and dask keep dispatching, Python threads keep running, and
\* every subprocess answers the lines it has received unless it exits.
FairSpec ==
    /\ Spec
    /\ \A w \in Workers :
        /\ WF_vars(\E t \in Threads, c \in Calls : TakeTask(w, t, c))
        /\ WF_vars(Popen(w))
        /\ WF_vars(HandshakeWrite(w))
        /\ WF_vars(HandshakeRead(w))
        /\ WF_vars(\E t \in Threads : FWrite(w, t))
        /\ WF_vars(\E t \in Threads : FRead(w, t))
        /\ WF_vars(EngineStep(w))

TypeOK ==
    /\ \A c \in Calls : callw[c] \in 0..NWorkers /\ writes[c] \in 0..2
    /\ \A w \in Workers :
        /\ wstate[w] \in {"unloaded", "spawned", "hs_sent", "ready"}
        /\ engine[w] \in {"none", "running", "exited"}
        /\ \A t \in Threads : tstate[w][t] \in {"idle", "taken", "written"}

\* ------------------------------------------------------------------ claims

Ended(c) == result[c].st # "none"

Idle(w) == \A t \in Threads : tstate[w][t] = "idle"

\* The calls that ended on the subprocess of w right after call c did.
NextOn(c) ==
    { d \in Calls : callw[d] = callw[c] /\ Ended(d) /\ result[d].n = result[c].n + 1 }

\* C1: every subprocess has at most one request in flight: of the lines
\* written to it at most one is not answered by a line read from it, and at
\* most one thread of its worker is between its write and its read.
OneInFlight ==
    \A w \in Workers :
        /\ Len(sent[w]) - nRead[w] <= 1
        /\ Cardinality({ t \in Threads : tstate[w][t] = "written" }) <= 1

\* C1 witness: with more calls than workers, every worker has a request in
\* flight at the same time, one of them after an earlier call on that worker.
OneInFlightWitness ==
    /\ NCalls > NWorkers
    /\ \A w \in Workers : \E t \in Threads : tstate[w][t] = "written"
    /\ \E w \in Workers : Len(sent[w]) = 3 /\ nRead[w] = 2

\* C2: the score a call returns is the value of the line the engine printed
\* for that call's own request, x - y of its configuration.
NoCrossTalk ==
    \A c \in Calls :
        result[c].st = "ok" =>
            /\ result[c].for = c
            /\ result[c].val = RequestOf(c).x - RequestOf(c).y

\* C2 witness: the requests {x:3,y:1} and {x:5,y:2}, run on two different
\* workers, have returned 2 and 3.
NoCrossTalkWitness ==
    /\ callw[1] # 0 /\ callw[2] # 0 /\ callw[1] # callw[2]
    /\ RequestOf(1).x = 3 /\ RequestOf(1).y = 1
    /\ RequestOf(2).x = 5 /\ RequestOf(2).y = 2
    /\ result[1].st = "ok" /\ result[1].val = 2
    /\ result[2].st = "ok" /\ result[2].val = 3

\* C3: with more calls than workers every call ends in the end, and at no
\* instant are more calls running than there are workers.
AllCallsComplete ==
    /\ [](Cardinality({ c \in Calls : callw[c] # 0 /\ ~Ended(c) }) <= NWorkers)
    /\ <>(\A c \in Calls : Ended(c))

\* C3 witness: more calls than workers were issued, every worker ran some of
\* them, and all of them have returned a score.
AllCallsCompleteWitness ==
    /\ NCalls > NWorkers
    /\ \A w \in Workers : \E c \in Calls : callw[c] = w
    /\ \A c \in Calls : result[c].st = "ok"

DeadWorkerIsRetired ==
    [][\A w \in Workers :
          (\E c \in Calls : callw[c] = w /\ result[c].hit = "eof") =>
              \A d \in Calls : callw'[d] = w => callw[d] = w]_vars

NoRequestWithoutHandshakeReply ==
    \A c \in Calls : writes[c] > 0 => nRead[callw[c]] >= 1

\* C8: once the run has ended no subprocess is left running.
NoSubprocessAfterRun ==
    ended => \A w \in Workers : engine[w] # "running"

\* C9: the include line is the first line written to a subprocess and is
\* written once; a request line is written only after one line was read, and
\* that line is discarded: no call parses it.
HandshakeFirstAndOnce ==
    /\ \A w \in Workers :
        /\ sent[w] # <<>> => sent[w][1].txt[1] = "include"
        /\ \A i \in 2..Len(sent[w]) : sent[w][i].txt[1] = "f"
        /\ Len(sent[w]) >= 2 => nRead[w] >= 1
    /\ \A c \in Calls : (Ended(c) /\ result[c].hit = "") => result[c].for # 0

\* C9 witness: a worker has written the include line and then two requests.
HandshakeFirstAndOnceWitness ==
    \E w \in Workers : Len(sent[w]) = 3 /\ nRead[w] = 3 /\ Idle(w)

\* C10 as stated: after n calls have ended on a worker (whose handshake line
\* was received), n + 1 lines were written to its subprocess and n + 1 lines
\* were read from it.
LinesAreCallsPlusOne ==
    \A w \in Workers :
        (wstate[w] = "ready" /\ Idle(w) /\ nRead[w] >= 1) =>
            /\ Len(sent[w]) = nDone[w] + 1
            /\ nRead[w] = nDone[w] + 1

\* C10 as amended: the same, on a worker whose subprocess has not exited.
LinesAreCallsPlusOneWhileRunning ==
    \A w \in Workers :
        (wstate[w] = "ready" /\ Idle(w) /\ engine[w] = "running") =>
            /\ Len(sent[w]) = nDone[w] + 1
            /\ nRead[w] = nDone[w] + 1
            /\ stdin[w] = <<>> /\ stdout[w] = <<>>

\* C10 witness: two calls have ended on a worker whose subprocess runs, one
\* of them on a reply that was no number.
LinesAreCallsPlusOneWitness ==
    \E w \in Workers :
        /\ wstate[w] = "ready" /\ Idle(w) /\ engine[w] = "running"
        /\ nDone[w] = 2
        /\ \E c \in Calls : callw[c] = w /\ result[c].st = "err"

====
